---- MODULE Spec2Model ----
(***************************************************************************)
(* ECIES over secp256k1 as implemented in hmt_escrow/crypto.py:            *)
(* encrypt, decrypt, ecdh_agree, kdf and hmac_sha256.                      *)
(*                                                                         *)
(* Byte strings are sequences of bytes.  A byte is a record [v, m]: v is   *)
(* its known value (0..255) and m the set of pseudo-random bytes XOR-ed    *)
(* into it.  SHA-256, HMAC-SHA-256 and the AES-CTR keystream are ideal     *)
(* functions: every distinct input is given its own identifier in the      *)
(* table `oracle`, and output byte i of input number id is the             *)
(* pseudo-random byte <<id, i>>.  Equal inputs give equal outputs and      *)
(* distinct inputs give outputs that differ in every byte.                 *)
(*                                                                         *)
(* The curve is secp256k1's equation y^2 = x^3 + 7 over the field F_13,    *)
(* where it has prime order 7; coordinates and scalars keep their 32-byte  *)
(* big-endian encoding.                                                    *)
(***************************************************************************)
EXTENDS Integers, Sequences, FiniteSets, TLC

\* ------------------------------------------------------------ constants
PUBKEY_LEN == 64
KEY_LEN == 32
HASH_BLOCK_SIZE == 64
DIGEST_SIZE == 32
AES_BLOCK_BITS == 128
HEADER_BYTE == 4

\* CURVE: y^2 = x^3 + CurveB over F_FieldP, generator (Gx, Gy).
FieldP == 13
CurveB == 7
Gx == 7
Gy == 5

\* ------------------------------------------------------------ bounds
MaxPlainLen == 2
MaxPrivKey == 2

\* ------------------------------------------------------------ bytes
Lit(n) == [v |-> n, m |-> {}]

Sym(id, i) == [v |-> 0, m |-> {<<id, i>>}]

RECURSIVE XorNat(_, _)
XorNat(a, b) ==
  IF a = 0 THEN b
  ELSE IF b = 0 THEN a
  ELSE (((a % 2) + (b % 2)) % 2) + 2 * XorNat(a \div 2, b \div 2)

XorByte(a, b) ==
  [v |-> XorNat(a.v, b.v), m |-> (a.m \ b.m) \cup (b.m \ a.m)]

Zeros(n) == [i \in 1..n |-> Lit(0)]

\* Python's s[start:stop] for integer start and stop (negative counts from the end).
PyIndex(i, n) == IF i < 0 THEN (IF i + n < 0 THEN 0 ELSE i + n) ELSE (IF i > n THEN n ELSE i)

PySlice(s, start, stop) ==
  LET lo == PyIndex(start, Len(s))
      hi == PyIndex(stop, Len(s))
  IN IF lo >= hi THEN <<>> ELSE SubSeq(s, lo + 1, hi)

\* Python's s[start:]
PySliceFrom(s, start) == PySlice(s, start, Len(s))

RECURSIVE int_to_big_endian(_)
int_to_big_endian(n) ==
  IF n < 256 THEN <<Lit(n)>>
  ELSE int_to_big_endian(n \div 256) \o <<Lit(n % 256)>>

\* The integer a big-endian byte string encodes; every value of 256 or more,
\* and every string holding a byte that is not a known value, is reported as
\* 256 (all of them lie outside the field and outside the scalar range).
big_endian_to_int(s) ==
  IF s = <<>> THEN 0
  ELSE IF \E i \in 1..Len(s) : s[i].m # {} THEN 256
  ELSE IF \E i \in 1..(Len(s) - 1) : s[i].v # 0 THEN 256
  ELSE s[Len(s)].v

pad32(value) ==
  IF Len(value) >= 32 THEN value ELSE Zeros(32 - Len(value)) \o value

struct_pack_I(counter) ==
  << Lit((counter \div 16777216) % 256), Lit((counter \div 65536) % 256),
     Lit((counter \div 256) % 256), Lit(counter % 256) >>

\* ------------------------------------------------------------ ideal primitives
Lookup(tbl, q) ==
  IF \E k \in 1..Len(tbl) : tbl[k] = q
  THEN [tbl |-> tbl, id |-> CHOOSE k \in 1..Len(tbl) : tbl[k] = q]
  ELSE [tbl |-> Append(tbl, q), id |-> Len(tbl) + 1]

sha256(tbl, data) ==
  LET r == Lookup(tbl, <<"sha256", data>>)
  IN [tbl |-> r.tbl, out |-> [i \in 1..DIGEST_SIZE |-> Sym(r.id, i)]]

\* A MAC that never absorbs the message (mac.update(msg) left out).
hmac_sha256_NoUpdate(tbl, key, msg) ==
  LET r == Lookup(tbl, <<"hmac", key, <<>>>>)
  IN [tbl |-> r.tbl, out |-> [i \in 1..DIGEST_SIZE |-> Sym(r.id, i)]]

hmac_sha256(tbl, key, msg) ==
  LET r == Lookup(tbl, <<"hmac", key, msg>>)
  IN [tbl |-> r.tbl, out |-> [i \in 1..DIGEST_SIZE |-> Sym(r.id, i)]]

\* Cipher(AES(key), CTR(iv)).encryptor()/decryptor(): data XOR keystream.
aes_ctr(tbl, key, iv, data) ==
  LET r == Lookup(tbl, <<"ctr", key, iv>>)
  IN [tbl |-> r.tbl, out |-> [i \in 1..Len(data) |-> XorByte(data[i], Sym(r.id, i))]]

\* ------------------------------------------------------------ curve
Infinity == [inf |-> TRUE, x |-> 0, y |-> 0]

Point(x, y) == [inf |-> FALSE, x |-> x, y |-> y]

ModP(a) == ((a % FieldP) + FieldP) % FieldP

InvP(a) == CHOOSE z \in 1..(FieldP - 1) : (ModP(a) * z) % FieldP = 1

OnCurve(x, y) ==
  /\ x < FieldP
  /\ y < FieldP
  /\ (y * y) % FieldP = (x * x * x + CurveB) % FieldP

PointAdd(P, Q) ==
  IF P.inf THEN Q
  ELSE IF Q.inf THEN P
  ELSE IF P.x = Q.x /\ ModP(P.y + Q.y) = 0 THEN Infinity
  ELSE LET l == IF P = Q
                THEN ModP(3 * P.x * P.x * InvP(2 * P.y))
                ELSE ModP((Q.y - P.y) * InvP(Q.x - P.x))
           x3 == ModP(l * l - P.x - Q.x)
       IN Point(x3, ModP(l * (P.x - x3) - P.y))

RECURSIVE ScalarMult(_, _)
ScalarMult(k, P) == IF k = 0 THEN Infinity ELSE PointAdd(P, ScalarMult(k - 1, P))

\* keys.PrivateKey(pad32(int_to_big_endian(private_value)))
PrivateKey(scalar) == pad32(int_to_big_endian(scalar))

\* privkey.public_key.to_bytes(): x || y, 32 bytes each, no format byte.
public_key(privkey) ==
  LET P == ScalarMult(big_endian_to_int(privkey), Point(Gx, Gy))
  IN pad32(int_to_big_endian(P.x)) \o pad32(int_to_big_endian(P.y))

ecdh_agree(privkey, pubkey) ==
  LET x == big_endian_to_int(PySlice(pubkey, 0, 32))
      y == big_endian_to_int(PySlice(pubkey, 32, 64))
  IN IF ~OnCurve(x, y)
     THEN [ok |-> FALSE, secret |-> <<>>]
     ELSE LET S == ScalarMult(big_endian_to_int(privkey), Point(x, y))
          IN [ok |-> TRUE, secret |-> pad32(int_to_big_endian(S.x))]

\* ------------------------------------------------------------ kdf
\* counter <= reps, with reps = ((KEY_LEN + 7) * 8) / (hash_blocksize * 8) a
\* true (not floor) division: compared exactly, as a fraction.
\* reps rounded up to a whole number of repetitions (1), still compared with <=.
KdfLoopCond_CeilReps(counter) ==
  counter <= ((KEY_LEN + 7) * 8 + (HASH_BLOCK_SIZE * 8) - 1) \div (HASH_BLOCK_SIZE * 8)

KdfLoopCond(counter) ==
  counter * (HASH_BLOCK_SIZE * 8) <= (KEY_LEN + 7) * 8

RECURSIVE KdfLoop(_, _, _, _, _)
KdfLoop(tbl, counter, key, counters, key_material) ==
  IF KdfLoopCond(counter)
  THEN LET c == counter + 1
           h == sha256(tbl, struct_pack_I(c) \o key_material)
       IN KdfLoop(h.tbl, c, key \o h.out, Append(counters, c), key_material)
  ELSE [tbl |-> tbl, key |-> PySlice(key, 0, KEY_LEN), counters |-> counters]

kdf(tbl, key_material) == KdfLoop(tbl, 0, <<>>, <<>>, key_material)

\* ------------------------------------------------------------ encrypt
\* 0x04 || R || iv || ciphertext
\* The message without its leading format byte.
Frame_NoHeader(ephem_pubkey, iv, ciphertext) ==
  ephem_pubkey \o iv \o ciphertext

Frame(ephem_pubkey, iv, ciphertext) ==
  <<Lit(HEADER_BYTE)>> \o ephem_pubkey \o iv \o ciphertext

\* Where the authenticated bytes start, in encrypt's msg and in decrypt's data.
\* A tag that also covers the embedded ephemeral public key.
MacOffset_CoversPubkey == Len(<<Lit(HEADER_BYTE)>>)

MacOffset == 1 + PUBKEY_LEN

encrypt(tbl, data, pubkey, shared_mac_data, ephemeral, iv) ==
  LET key_material == ecdh_agree(ephemeral, pubkey).secret
      k == kdf(tbl, key_material)
      key_enc == PySlice(k.key, 0, KEY_LEN \div 2)
      key_mac_raw == PySliceFrom(k.key, KEY_LEN \div 2)
      key_mac == sha256(k.tbl, key_mac_raw)
      ephem_pubkey == public_key(ephemeral)
      ctx == aes_ctr(key_mac.tbl, key_enc, iv, data)
      msg == Frame(ephem_pubkey, iv, ctx.out)
      tag == hmac_sha256(ctx.tbl, key_mac.out,
                         PySliceFrom(msg, MacOffset) \o shared_mac_data)
  IN [tbl |-> tag.tbl, out |-> msg \o tag.out, kdf_counters |-> k.counters,
      key |-> k.key, key_material |-> key_material]

\* ------------------------------------------------------------ decrypt
NoResult == [kind |-> "none", text |-> "", value |-> <<>>]

Returned(value) == [kind |-> "return", text |-> "", value |-> value]

Raised(kind, text, detail) == [kind |-> kind, text |-> text, value |-> detail]

DecryptionError(text, detail) == Raised("DecryptionError", text, detail)

IdleFrame ==
  [pc |-> "idle", data |-> <<>>, privkey |-> <<>>, shared_mac_data |-> <<>>,
   key_material |-> <<>>, key |-> <<>>, key_enc |-> <<>>, key_mac |-> <<>>,
   kdf_counters |-> <<>>, shared |-> <<>>, tag |-> <<>>, iv |-> <<>>,
   ciphertext |-> <<>>, steps |-> <<>>, result |-> NoResult]

NewFrame(data, privkey, shared_mac_data) ==
  [IdleFrame EXCEPT !.pc = "header", !.data = data, !.privkey = privkey,
                    !.shared_mac_data = shared_mac_data]

Finish(d, step, result) ==
  [d EXCEPT !.pc = "done", !.steps = Append(@, step), !.result = result]

\* if data[:1] != b"\x04": raise DecryptionError("wrong ecies header")
\* A header check on data[0] that lets the empty input through.
validate_header_SkipsEmpty(d) ==
  IF d.data # <<>> /\ d.data[1] # Lit(HEADER_BYTE)
  THEN Finish(d, "ValidateHeader", DecryptionError("wrong ecies header", <<>>))
  ELSE [d EXCEPT !.pc = "agree", !.steps = Append(@, "ValidateHeader")]

validate_header(d) ==
  IF PySlice(d.data, 0, 1) # <<Lit(HEADER_BYTE)>>
  THEN Finish(d, "ValidateHeader", DecryptionError("wrong ecies header", <<>>))
  ELSE [d EXCEPT !.pc = "agree", !.steps = Append(@, "ValidateHeader")]

\* shared = data[1:65]; ecdh_agree(privkey, keys.PublicKey(shared)).
\* keys.PublicKey refuses a byte string that is not 64 bytes long with a
\* ValidationError, which decrypt does not catch.
agree(d) ==
  LET shared == PySlice(d.data, 1, 1 + PUBKEY_LEN)
  IN IF Len(shared) # PUBKEY_LEN
     THEN Finish([d EXCEPT !.shared = shared], "Agree",
                 Raised("ValidationError", "Unexpected public key format", shared))
     ELSE LET r == ecdh_agree(d.privkey, shared)
          IN IF ~r.ok
             THEN Finish([d EXCEPT !.shared = shared], "Agree",
                         DecryptionError("Failed to generate shared secret with pubkey", shared))
             ELSE [d EXCEPT !.pc = "kdf", !.steps = Append(@, "Agree"),
                            !.shared = shared, !.key_material = r.secret]

\* key = kdf(key_material); split; key_mac = sha256(key_mac).digest()
derive_keys(tbl, d) ==
  LET k == kdf(tbl, d.key_material)
      key_mac == sha256(k.tbl, PySliceFrom(k.key, KEY_LEN \div 2))
  IN [tbl |-> key_mac.tbl,
      d |-> [d EXCEPT !.pc = "verify", !.steps = Append(@, "KDF"),
                      !.key = k.key, !.kdf_counters = k.counters,
                      !.key_enc = PySlice(k.key, 0, KEY_LEN \div 2),
                      !.key_mac = key_mac.out]]

\* The bytes decrypt authenticates: data[1 + PUBKEY_LEN : -KEY_LEN] + shared_mac_data
\* The authenticated bytes without shared_mac_data.
AuthenticatedBytes_NoMacData(data, shared_mac_data) ==
  PySlice(data, 1 + PUBKEY_LEN, 0 - KEY_LEN)

AuthenticatedBytes(data, shared_mac_data) ==
  PySlice(data, MacOffset, 0 - KEY_LEN) \o shared_mac_data

\* tag = data[-KEY_LEN:]; bytes_eq(expected_tag, tag)
\* A tag check whose mismatch is not raised.
verify_tag_NoRaise(tbl, d) ==
  LET tag == PySliceFrom(d.data, 0 - KEY_LEN)
      expected_tag == hmac_sha256(tbl, d.key_mac,
                                  PySlice(d.data, 1 + PUBKEY_LEN, 0 - KEY_LEN) \o d.shared_mac_data)
  IN [tbl |-> expected_tag.tbl,
      d |-> [d EXCEPT !.pc = "decrypt", !.steps = Append(@, "VerifyTag"), !.tag = tag]]

verify_tag(tbl, d) ==
  LET tag == PySliceFrom(d.data, 0 - KEY_LEN)
      expected_tag == hmac_sha256(tbl, d.key_mac,
                                  AuthenticatedBytes(d.data, d.shared_mac_data))
  IN [tbl |-> expected_tag.tbl,
      d |-> IF expected_tag.out # tag
            THEN Finish([d EXCEPT !.tag = tag], "VerifyTag",
                        DecryptionError("Failed to verify tag", <<>>))
            ELSE [d EXCEPT !.pc = "decrypt", !.steps = Append(@, "VerifyTag"),
                           !.tag = tag]]

\* iv = data[65:65+blocksize]; ciphertext = data[65+blocksize:-KEY_LEN].
\* CTR(iv) refuses an iv that is not one block long with a ValueError.
\* The ciphertext sliced from where the iv starts.
decrypt_payload_IvAsCiphertext(tbl, d) ==
  LET blocksize == AES_BLOCK_BITS \div 8
      iv == PySlice(d.data, 1 + PUBKEY_LEN, 1 + PUBKEY_LEN + blocksize)
      ciphertext == PySlice(d.data, 1 + PUBKEY_LEN, 0 - KEY_LEN)
      ctx == aes_ctr(tbl, d.key_enc, iv, ciphertext)
  IN [tbl |-> ctx.tbl,
      d |-> Finish([d EXCEPT !.iv = iv, !.ciphertext = ciphertext], "DecryptPayload",
                   Returned(ctx.out))]

decrypt_payload(tbl, d) ==
  LET blocksize == AES_BLOCK_BITS \div 8
      iv == PySlice(d.data, 1 + PUBKEY_LEN, 1 + PUBKEY_LEN + blocksize)
      ciphertext == PySlice(d.data, 1 + PUBKEY_LEN + blocksize, 0 - KEY_LEN)
      ctx == aes_ctr(tbl, d.key_enc, iv, ciphertext)
  IN IF Len(iv) # blocksize
     THEN [tbl |-> tbl,
           d |-> Finish([d EXCEPT !.iv = iv, !.ciphertext = ciphertext], "DecryptPayload",
                        Raised("ValueError", "Invalid nonce size", iv))]
     ELSE [tbl |-> ctx.tbl,
           d |-> Finish([d EXCEPT !.iv = iv, !.ciphertext = ciphertext], "DecryptPayload",
                        Returned(ctx.out))]

\* One call of decrypt, start to end.
decrypt(tbl, data, privkey, shared_mac_data) ==
  LET d1 == validate_header(NewFrame(data, privkey, shared_mac_data))
      d2 == agree(d1)
      r3 == derive_keys(tbl, d2)
      r4 == verify_tag(r3.tbl, r3.d)
      r5 == decrypt_payload(r4.tbl, r4.d)
  IN IF d1.pc = "done" THEN d1
     ELSE IF d2.pc = "done" THEN d2
     ELSE IF r4.d.pc = "done" THEN r4.d
     ELSE r5.d

\* ------------------------------------------------------------ inputs
PrivKeys == {PrivateKey(k) : k \in 1..MaxPrivKey}

\* The scalars generate_privkey draws for the ephemeral key.
EphemeralKeys == {PrivateKey(3), PrivateKey(5)}

RECURSIVE SeqsUpTo(_, _)
SeqsUpTo(S, n) ==
  IF n = 0 THEN {<<>>}
  ELSE LET T == SeqsUpTo(S, n - 1)
       IN T \cup {Append(t, x) : t \in {u \in T : Len(u) = n - 1}, x \in S}

PlainBytes == {Lit(104)}

Hello == <<Lit(104), Lit(101), Lit(108), Lit(108), Lit(111)>>

Plaintexts == SeqsUpTo(PlainBytes, MaxPlainLen) \cup {Hello}

MacData == {<<>>, <<Lit(1)>>}

IVs == {[i \in 1..(AES_BLOCK_BITS \div 8) |-> Lit(9)]}

\* What an attacker XORs into one byte of a message: the low bit, the mask
\* that turns y into FieldP - y on this curve, and one that turns the x of one
\* point into the x of another.
FlipMasks == {1, 13, 15}

Flip(msg, pos, mask) ==
  [msg EXCEPT ![pos] = XorByte(@, Lit(mask))]

\* The messages decrypt is called with: the message as sent, the message with
\* one byte changed, and every proper prefix of it (the empty input included).
Inputs(msg) ==
  {msg}
    \cup {Flip(msg, pos, mask) : pos \in 1..Len(msg), mask \in FlipMasks}
    \cup {SubSeq(msg, 1, n) : n \in 0..(Len(msg) - 1)}

\* ------------------------------------------------------------ state
VARIABLES oracle, enc, dec

vars == <<oracle, enc, dec>>

IdleEnc ==
  [pc |-> "idle", data |-> <<>>, pubkey |-> <<>>, shared_mac_data |-> <<>>,
   ephemeral |-> <<>>, iv |-> <<>>, key_material |-> <<>>, key |-> <<>>,
   kdf_counters |-> <<>>, msg |-> <<>>]

Init ==
  /\ oracle = <<>>
  /\ enc = IdleEnc
  /\ dec = IdleFrame

\* A call of encrypt: the ephemeral key and the iv are drawn at random.
Encrypt ==
  /\ enc.pc = "idle"
  /\ \E data \in Plaintexts, recipient \in PrivKeys, shared_mac_data \in MacData,
        ephemeral \in EphemeralKeys, iv \in IVs :
       LET r == encrypt(oracle, data, public_key(recipient), shared_mac_data, ephemeral, iv)
       IN /\ enc' = [pc |-> "done", data |-> data, pubkey |-> public_key(recipient),
                     shared_mac_data |-> shared_mac_data, ephemeral |-> ephemeral,
                     iv |-> iv, key_material |-> r.key_material, key |-> r.key,
                     kdf_counters |-> r.kdf_counters, msg |-> r.out]
          /\ oracle' = r.tbl
  /\ UNCHANGED dec

\* A call of decrypt on a message received from the network.
D_Call ==
  /\ enc.pc = "done"
  /\ dec.pc = "idle"
  /\ \E data \in Inputs(enc.msg), privkey \in PrivKeys, shared_mac_data \in MacData :
       dec' = NewFrame(data, privkey, shared_mac_data)
  /\ UNCHANGED <<oracle, enc>>

D_ValidateHeader ==
  /\ dec.pc = "header"
  /\ dec' = validate_header(dec)
  /\ UNCHANGED <<oracle, enc>>

D_Agree ==
  /\ dec.pc = "agree"
  /\ dec' = agree(dec)
  /\ UNCHANGED <<oracle, enc>>

D_Kdf ==
  /\ dec.pc = "kdf"
  /\ LET r == derive_keys(oracle, dec)
     IN dec' = r.d /\ oracle' = r.tbl
  /\ UNCHANGED enc

D_VerifyTag ==
  /\ dec.pc = "verify"
  /\ LET r == verify_tag(oracle, dec)
     IN dec' = r.d /\ oracle' = r.tbl
  /\ UNCHANGED enc

D_DecryptPayload ==
  /\ dec.pc = "decrypt"
  /\ LET r == decrypt_payload(oracle, dec)
     IN dec' = r.d /\ oracle' = r.tbl
  /\ UNCHANGED enc

Next ==
  \/ Encrypt
  \/ D_Call
  \/ D_ValidateHeader
  \/ D_Agree
  \/ D_Kdf
  \/ D_VerifyTag
  \/ D_DecryptPayload

Spec == Init /\ [][Next]_vars

\* ------------------------------------------------------------ properties
Range(s) == {s[i] : i \in 1..Len(s)}

LastStep(d) == IF d.steps = <<>> THEN "none" ELSE d.steps[Len(d.steps)]

KeyPairMatches == public_key(dec.privkey) = enc.pubkey

\* The expected tag decrypt computes equals the tag the message carries.
TagMatches(d) ==
  hmac_sha256(oracle, d.key_mac, AuthenticatedBytes(d.data, d.shared_mac_data)).out
    = PySliceFrom(d.data, 0 - KEY_LEN)

ChangedPositions(data, msg) == {i \in 1..Len(msg) : data[i] # msg[i]}

OneByteChanged(data, msg) ==
  /\ Len(data) = Len(msg)
  /\ Cardinality(ChangedPositions(data, msg)) = 1

\* The 64-byte encodings of the points of the curve.
CurvePointEncodings ==
  {pad32(int_to_big_endian(x)) \o pad32(int_to_big_endian(y)) :
     <<x, y>> \in {q \in (0..(FieldP - 1)) \X (0..(FieldP - 1)) : OnCurve(q[1], q[2])}}

OracleAfterEncrypt ==
  encrypt(<<>>, enc.data, enc.pubkey, enc.shared_mac_data, enc.ephemeral, enc.iv).tbl

\* C1: decrypting the message encrypt returned, with the private key of the
\* recipient's public key and the same shared_mac_data, returns the plaintext.
C1_RoundTrip ==
  (/\ dec.pc = "done"
   /\ dec.data = enc.msg
   /\ KeyPairMatches
   /\ dec.shared_mac_data = enc.shared_mac_data)
  => dec.result = Returned(enc.data)

C1_Witness ==
  /\ dec.pc = "done"
  /\ dec.data = enc.msg
  /\ KeyPairMatches
  /\ dec.shared_mac_data = enc.shared_mac_data
  /\ enc.shared_mac_data # <<>>
  /\ enc.data = Hello
  /\ dec.result = Returned(Hello)

\* C2: the decryption step is reached only after the tag comparison was made and
\* succeeded; a tag mismatch ends decrypt in failure with no decryption step
\* and no plaintext.
C2_VerifyBeforeDecrypt ==
  /\ (dec.pc = "decrypt" \/ "DecryptPayload" \in Range(dec.steps))
       => /\ \E i \in 1..Len(dec.steps) :
               /\ dec.steps[i] = "VerifyTag"
               /\ \A j \in 1..i : dec.steps[j] # "DecryptPayload"
          /\ TagMatches(dec)
  /\ (dec.pc = "done" /\ LastStep(dec) = "VerifyTag")
       => /\ ~TagMatches(dec)
          /\ dec.result = DecryptionError("Failed to verify tag", <<>>)
          /\ dec.iv = <<>> /\ dec.ciphertext = <<>>
  /\ dec.result.kind = "return" => LastStep(dec) = "DecryptPayload"

C2_Witness ==
  /\ dec.pc = "done"
  /\ LastStep(dec) = "VerifyTag"
  /\ OneByteChanged(dec.data, enc.msg)
  /\ dec.result.kind = "DecryptionError"

\* C3: decrypt of a message shorter than 97 bytes fails with the malformed
\* message error, a DecryptionError that is not the tag failure.
C3_ShortIsMalformed ==
  (dec.pc = "done" /\ Len(dec.data) < 97)
  => /\ dec.result.kind = "DecryptionError"
     /\ dec.result.text # "Failed to verify tag"

\* C4: a decrypt that fails on a tag mismatch raises the same exception, with
\* the same message, as a decrypt that fails on a wrong header byte or on an
\* embedded public key that is no curve point.
C4_FailuresIndistinguishable ==
  (dec.pc = "done" /\ LastStep(dec) = "VerifyTag" /\ dec.result.kind = "DecryptionError")
  => \A pos \in {1, 1 + PUBKEY_LEN} :
       LET other == decrypt(oracle, Flip(dec.data, pos, 1), dec.privkey, dec.shared_mac_data)
       IN LastStep(other) \in {"ValidateHeader", "Agree"}
            => /\ other.result.kind = dec.result.kind
               /\ other.result.text = dec.result.text

\* C5: decrypting the message encrypt returned with a different
\* shared_mac_data fails at tag verification and returns no plaintext.
C5_MacDataBinding ==
  (/\ dec.pc = "done"
   /\ dec.data = enc.msg
   /\ KeyPairMatches
   /\ dec.shared_mac_data # enc.shared_mac_data)
  => /\ dec.result = DecryptionError("Failed to verify tag", <<>>)
     /\ LastStep(dec) = "VerifyTag"
     /\ "DecryptPayload" \notin Range(dec.steps)

C5_Witness ==
  /\ dec.pc = "done"
  /\ dec.data = enc.msg
  /\ KeyPairMatches
  /\ dec.shared_mac_data # enc.shared_mac_data
  /\ dec.result.kind = "DecryptionError"

\* C6 as stated: a message of encrypt with one position changed never decrypts.
C6_AnyChangeFails ==
  (/\ dec.pc = "done"
   /\ OneByteChanged(dec.data, enc.msg)
   /\ KeyPairMatches
   /\ dec.shared_mac_data = enc.shared_mac_data)
  => dec.result.kind # "return"

\* C6 as amended: a message of encrypt with one position changed fails to
\* decrypt, unless the change is in the embedded ephemeral public key and
\* leaves the ECDH shared secret as it was; decrypt then returns the plaintext
\* encrypt was given.  It never returns another plaintext.
C6_TamperDetection ==
  (/\ dec.pc = "done"
   /\ OneByteChanged(dec.data, enc.msg)
   /\ KeyPairMatches
   /\ dec.shared_mac_data = enc.shared_mac_data)
  => \/ dec.result.kind = "DecryptionError"
     \/ /\ dec.result = Returned(enc.data)
        /\ ChangedPositions(dec.data, enc.msg) \subseteq 2..(1 + PUBKEY_LEN)
        /\ dec.key_material = enc.key_material

C6_Witness ==
  /\ dec.pc = "done"
  /\ OneByteChanged(dec.data, enc.msg)
  /\ KeyPairMatches
  /\ dec.shared_mac_data = enc.shared_mac_data
  /\ enc.data # <<>>
  /\ ChangedPositions(dec.data, enc.msg) = {1 + PUBKEY_LEN + (AES_BLOCK_BITS \div 8) + 1}
  /\ dec.result = DecryptionError("Failed to verify tag", <<>>)

\* C7 as stated: the message of encrypt is 1 + 64 + 16 + len(m) + 32 bytes
\* long and starts with 0x04, and it is 113 bytes long for a 5-byte plaintext.
C7_HelloIs113 ==
  enc.pc = "done" =>
    /\ Len(enc.msg) = 1 + 64 + 16 + Len(enc.data) + 32
    /\ enc.msg[1] = Lit(4)
    /\ (Len(enc.data) = 5 => Len(enc.msg) = 113)

\* C7 as amended: encrypt returns 0x04 || ephemeral public key (64) || iv (16)
\* || ciphertext (len(m)) || tag (32), 1 + 64 + 16 + len(m) + 32 = 113 + len(m)
\* bytes (118 for a 5-byte plaintext), and decrypt slices the public key, the
\* iv, the ciphertext and the tag of that message at the same offsets.
C7_Framing ==
  /\ enc.pc = "done" =>
       LET n == Len(enc.data)
           L == Len(enc.msg)
       IN /\ L = 1 + 64 + 16 + n + 32
          /\ L = 113 + n
          /\ (n = 5 => L = 118)
          /\ enc.msg[1] = Lit(4)
          /\ SubSeq(enc.msg, 2, 65) = public_key(enc.ephemeral)
          /\ SubSeq(enc.msg, 66, 81) = enc.iv
          /\ SubSeq(enc.msg, L - 31, L)
               = hmac_sha256(oracle, sha256(oracle, SubSeq(enc.key, 17, 32)).out,
                             SubSeq(enc.msg, 66, L - 32) \o enc.shared_mac_data).out
  /\ (dec.data = enc.msg /\ "Agree" \in Range(dec.steps))
       => dec.shared = SubSeq(enc.msg, 2, 65)
  /\ (dec.data = enc.msg /\ "VerifyTag" \in Range(dec.steps))
       => dec.tag = SubSeq(enc.msg, Len(enc.msg) - 31, Len(enc.msg))
  /\ (dec.data = enc.msg /\ "DecryptPayload" \in Range(dec.steps))
       => /\ dec.iv = SubSeq(enc.msg, 66, 81)
          /\ dec.ciphertext = SubSeq(enc.msg, 82, Len(enc.msg) - 32)
          /\ Len(dec.ciphertext) = Len(enc.data)

C7_Witness ==
  /\ enc.pc = "done"
  /\ enc.data = Hello
  /\ Len(enc.msg) = 118
  /\ dec.data = enc.msg
  /\ "DecryptPayload" \in Range(dec.steps)
  /\ dec.iv = enc.iv

\* C8: on an input whose first byte is not 0x04 (the empty input included)
\* decrypt fails with the header error and does nothing else: no public key
\* extracted, no key agreement, no KDF, no tag computed, no decryption.
C8_HeaderFirst ==
  (dec.pc # "idle" /\ PySlice(dec.data, 0, 1) # <<Lit(4)>>)
  => /\ dec.pc \in {"header", "done"}
     /\ dec.pc = "done"
          => /\ dec.steps = <<"ValidateHeader">>
             /\ dec.result = DecryptionError("wrong ecies header", <<>>)
     /\ dec.shared = <<>> /\ dec.key_material = <<>> /\ dec.key = <<>>
     /\ dec.key_enc = <<>> /\ dec.key_mac = <<>> /\ dec.tag = <<>>
     /\ dec.iv = <<>> /\ dec.ciphertext = <<>>
     /\ oracle = OracleAfterEncrypt

C8_Witness ==
  /\ dec.pc = "done"
  /\ dec.data = <<>>
  /\ dec.result = DecryptionError("wrong ecies header", <<>>)

\* The repetition count of the formula under integer division.
RepsInteger == ((KEY_LEN + 7) * 8) \div (HASH_BLOCK_SIZE * 8)

KdfRuns ==
  (IF enc.pc = "done" THEN {enc} ELSE {})
    \cup (IF "KDF" \in Range(dec.steps) THEN {dec} ELSE {})

\* C9 as stated: kdf computes reps digests, for the counters 1..reps, where
\* reps is the formula's value under integer division and is 1, and returns
\* SHA256(00000001 || secret).
C9_RepsIsOne ==
  \A run \in KdfRuns :
    /\ RepsInteger = 1
    /\ run.kdf_counters = [i \in 1..RepsInteger |-> i]
    /\ run.key = sha256(oracle, <<Lit(0), Lit(0), Lit(0), Lit(1)>> \o run.key_material).out

\* C9 as amended: kdf computes floor(reps) + 1 digests, for the counters
\* 1..floor(reps) + 1, where reps is 312/512 (0 under integer division); that
\* is one digest, for counter 1, and the result is the 32 bytes of
\* SHA256(00000001 || secret).
C9_KdfRepetitions ==
  \A run \in KdfRuns :
    /\ RepsInteger = 0
    /\ run.kdf_counters = [i \in 1..(RepsInteger + 1) |-> i]
    /\ run.kdf_counters = <<1>>
    /\ Len(run.key) = 32
    /\ run.key = sha256(oracle, <<Lit(0), Lit(0), Lit(0), Lit(1)>> \o run.key_material).out
    /\ \A k \in 1..Len(oracle) :
         (oracle[k][1] = "sha256" /\ Len(oracle[k][2]) = 4 + Len(run.key_material)
            /\ SubSeq(oracle[k][2], 5, Len(oracle[k][2])) = run.key_material)
         => SubSeq(oracle[k][2], 1, 4) = <<Lit(0), Lit(0), Lit(0), Lit(1)>>

C9_Witness ==
  /\ enc.pc = "done"
  /\ enc.kdf_counters = <<1>>
  /\ "KDF" \in Range(dec.steps)
  /\ dec.kdf_counters = <<1>>
  /\ dec.key = enc.key

\* C10: two messages that start with 0x04, are identical from byte 65 on, and
\* whose embedded public keys give the same shared secret with the recipient's
\* private key are both rejected or both accepted with the same plaintext.
C10_PubkeyOnlyThroughSecret ==
  (/\ dec.pc = "done"
   /\ PySlice(dec.data, 0, 1) = <<Lit(4)>>
   /\ Len(dec.shared) = PUBKEY_LEN
   /\ ecdh_agree(dec.privkey, dec.shared).ok)
  => \A P \in CurvePointEncodings :
       ecdh_agree(dec.privkey, P).secret = dec.key_material
       => LET other == decrypt(oracle, <<Lit(4)>> \o P \o PySliceFrom(dec.data, 1 + PUBKEY_LEN),
                               dec.privkey, dec.shared_mac_data)
          IN /\ other.result.kind = dec.result.kind
             /\ other.result.value = dec.result.value

C10_Witness ==
  /\ dec.pc = "done"
  /\ dec.data = enc.msg
  /\ dec.result = Returned(enc.data)
  /\ enc.data # <<>>
  /\ \E P \in CurvePointEncodings :
       /\ P # dec.shared
       /\ ecdh_agree(dec.privkey, P).secret = dec.key_material
       /\ decrypt(oracle, <<Lit(4)>> \o P \o PySliceFrom(dec.data, 1 + PUBKEY_LEN),
                  dec.privkey, dec.shared_mac_data).result = Returned(enc.data)

====
